---- MODULE Spec2Model ----
(***************************************************************************)
(* A model of vumi/persist/riak_manager.py: RiakManager (riak_object,     *)
(* store, delete, load with its migration loop, _load_multiple,            *)
(* run_map_reduce, purge_all) and StreamingMapReduceHttpTransport (mapred, *)
(* decode_chunked_response, decode_chunks).                                *)
(*                                                                         *)
(* Python's None is the empty tuple and a present value x is <<x>>, so     *)
(* that "is None" can be asked of any value.                               *)
(***************************************************************************)
EXTENDS Integers, Sequences, FiniteSets, TLC

\* ------------------------------------------------------------- bounds
\* The largest schema version a payload or a model class carries.
MaxVersion == 2
\* The counter of migrator invocations stops counting here (the loop goes on).
MaxMigrations == 3
\* The longest key sequence handed to _load_multiple.
MaxKeys == 3

\* The largest phase index a chunk carries.
MaxPhase == 2
\* The most parts a multipart body has.
MaxChunks == 3
\* The most index entries a fetch result carries.
MaxIndexes == 2
\* The most rows a map-reduce job returns.
MaxRows == 3

\* ------------------------------------------------------------- values
None == <<>>
Some(x) == <<x>>

Keys == {"A", "B"}
Fields == {"x", "y"}

\* data.get('$VERSION', None): a payload without the field has version None,
\* which is also a model class's VERSION before its first migration.
NoVersion == 0
Versions == NoVersion .. MaxVersion

\* The decoded payload of a riak object: its $VERSION and its field data.
Payloads == [ver : Versions, fields : Fields]

\* The 'application/json' encoder and decoder the manager installs.
json_dumps(data) == <<"{$VERSION:", data.ver, ",", data.fields, "}">>
json_loads(body) == [ver |-> body[2], fields |-> body[4]]

Bodies == {json_dumps(d) : d \in Payloads}

\* The field data a migrator writes.
Migrated == "m"

\* What a migrator invocation can do: hand back a riak object (at any version,
\* with field data of its own), hand back one whose data is None, or raise.
Outcomes == [kind : {"obj"}, ver : Versions, fields : {Migrated}]
            \cup {[kind |-> "none", ver |-> NoVersion, fields |-> Migrated],
                  [kind |-> "raise", ver |-> NoVersion, fields |-> Migrated]}
Unset == [kind |-> "unset", ver |-> NoVersion, fields |-> Migrated]

RECURSIVE SeqsUpTo(_, _)
SeqsUpTo(S, n) ==
    IF n = 0 THEN {<<>>}
    ELSE LET shorter == SeqsUpTo(S, n - 1)
         IN  shorter \cup {Append(s, x) : s \in {t \in shorter : Len(t) = n - 1}, x \in S}

\* ------------------------------------------------------------- transport values
\* response[0]['http_code'] and headers['content-type'] of a map-reduce response.
Statuses == {200, 404, 500}
ContentTypes == {"application/json", "multipart/mixed"}
NoHeaders == [http_code |-> 0, content_type |-> ""]

Phases == 0 .. MaxPhase
ChunkData == {<<>>, <<"1">>, <<"2", "3">>}

\* The payload of a part that is the JSON text of {"phase": p, "data": d}, and
\* of a part that is empty.
chunk_text(p, d) == <<"{phase:", p, ",data:", d, "}">>
EmptyChunk == <<"">>
ChunkTexts == {chunk_text(p, d) : p \in Phases, d \in ChunkData} \cup {EmptyChunk}

\* json.loads of a part's payload: None stands for its ValueError.
json_loads_chunk(text) ==
    IF Len(text) = 5 THEN Some([phase |-> text[2], data |-> text[4]]) ELSE None

\* A response body: its text when it is not a sequence of MIME parts, and the
\* payloads of its parts when it is one.
Boundary == "--boundary"
ClosingBoundary == "--boundary--"
TextBodies == {"", " \n", "[]", "[\"1\"]", "[\"error\"]", "{\"error\":\"x\"}",
               "{\"a\":\"1\"}", "<html>", ClosingBoundary}
HttpBodies ==
    {[text |-> t, parts |-> <<>>] : t \in TextBodies}
    \cup {[text |-> Boundary, parts |-> ps] :
             ps \in SeqsUpTo(ChunkTexts, MaxChunks) \ {<<>>}}
NoBody == [text |-> "", parts |-> <<>>]

Responses == [headers : [http_code : Statuses, content_type : ContentTypes],
              body : HttpBodies]

\* Line 171 asking the content type, not the message, whether it is
\* multipart: a body of no part is handed to decode_chunks as an empty list.
message_from_string_by_content_type(content_type, body) ==
    LET multipart == content_type = "multipart/mixed"
    IN  [is_multipart |-> multipart,
         parts |-> IF multipart THEN body.parts ELSE <<>>,
         payload |-> IF multipart THEN "" ELSE body.text]

\* email.message_from_string of "Content-Type: <content type>\n\n<body>": the
\* message is multipart when the content type is and the body holds parts; its
\* payload is then the list of parts, and else the body's text. Of a
\* multipart body that is its closing delimiter alone the text is what stands
\* before the delimiter, which is nothing.
message_from_string(content_type, body) ==
    LET multipart == content_type = "multipart/mixed" /\ body.parts /= <<>>
    IN  [is_multipart |-> multipart,
         parts |-> IF multipart THEN body.parts ELSE <<>>,
         payload |-> IF multipart THEN ""
                     ELSE IF content_type = "multipart/mixed" /\ body.text = ClosingBoundary
                     THEN ""
                     ELSE body.text]

\* payload.strip()
strip(payload) == IF payload \in {"", " \n"} THEN "" ELSE payload

\* A decoded JSON document: a list with its items or a mapping with its keys.
list_document(items) == [type |-> "list", items |-> items, keys |-> {}]
dict_document(ks) == [type |-> "dict", items |-> <<>>, keys |-> ks]

\* json.loads of a body: None stands for its ValueError.
json_loads_document(text) ==
    CASE text = "[]" -> Some(list_document(<<>>))
      [] text = "[\"1\"]" -> Some(list_document(<<"1">>))
      [] text = "[\"error\"]" -> Some(list_document(<<"error">>))
      [] text = "{\"error\":\"x\"}" -> Some(dict_document({"error"}))
      [] text = "{\"a\":\"1\"}" -> Some(dict_document({"a"}))
      [] OTHER -> None

\* Python's "'error' in result" of a list or a mapping.
contains_error(doc) ==
    \/ "error" \in doc.keys
    \/ \E i \in 1 .. Len(doc.items) : doc.items[i] = "error"

\* Line 179 without its isinstance test.
is_error_document_any_type(doc) == contains_error(doc)

\* Line 179: isinstance(result, dict) and 'error' in result
is_error_document(doc) == doc.type = "dict" /\ contains_error(doc)

\* The exception of raise_mapred_error(headers, body), which carries both.
raise_mapred_error(headers, body) ==
    [kind |-> "mapred", headers |-> headers, body |-> body]
exception(kind) == [kind |-> kind, headers |-> NoHeaders, body |-> NoBody]
NoError == exception("")

\* Line 158 taking only the server's errors for errors.
status_not_ok_5xx(status) == status >= 500

\* Line 158: status != 200
status_not_ok(status) == status /= 200

Max(S) == CHOOSE x \in S : \A y \in S : y <= x

\* ------------------------------------------------------------- state
VARIABLES
    kv,           \* the bucket of modelcls: key -> None or Some(encoded body)
    VERSION,      \* modelcls.VERSION
    MIGRATOR,     \* modelcls.MIGRATOR as far as it is known: data_version -> outcome
    stored,       \* history: key -> the field data store() last wrote, None after delete
    pc,           \* where load is: "idle", "loop", "returned", "raised"
    key,          \* load's key
    riak_obj,     \* load's local riak_object: [key, data]
    start,        \* history: the data of riak_object when the loop was entered
    nmig,         \* history: migrator invocations of this load
    ret,          \* load's return value: None or Some(model object)
    exc,          \* the exception leaving load: "" (none), "transport", "migrator"
    bpc,          \* where _load_multiple is: "idle", "iter", "loading", "returned", "raised"
    keys,         \* its keys
    idx,          \* how many keys its generator has consumed
    objs,         \* the list it builds, each entry Some(model object)
    loaded,       \* history: <<key, return value>> of each load it has called
    phaseless,    \* what the transport's phaseless_mapred() answers
    mpc,          \* where mapred is: "idle", "waiting", "response", "chunks",
                  \* "returned", "raised"
    query,        \* mapred's query: None or Some(list of phases)
    sent,         \* history: http_request has been called
    response,     \* None or Some([headers, body]) as http_request returned it
    decoded,      \* history: decode_chunked_response has been called
    chunks,       \* decode_chunks' chunks: the payloads of the message's parts
    ci,           \* how many chunks its loop has consumed
    phase_results, \* its dict: phase -> None (no such key) or Some(list)
    mresult,      \* mapred's return value: None or Some(document)
    merror,       \* the exception leaving mapred: its kind, headers and body
    buckets,      \* the store as purge_all sees it: bucket name -> key -> None or Some(value)
    spc,          \* where purge_all is: "idle", "start", "buckets", "keys",
                  \* "returned", "raised"
    todo,         \* the bucket names its outer loop has still to visit
    cur,          \* the bucket its inner loop is in
    bkeys,        \* the keys of that bucket its inner loop has still to delete
    before,       \* history: the store when purge_all was called
    deleted,      \* history: the <<bucket, key>> pairs this purge_all has deleted
    ikey,         \* the key riak_object is called with
    fetched,      \* two fetch results for it that differ in the shape of their index
    built,        \* None, or Some(the riak objects riak_object built from the two)
    rpc,          \* where run_map_reduce is: "idle", "running", "mapping",
                  \* "reducing", "returned", "raised"
    mapper_func,  \* its mapper_func: None or Some(function)
    reducer_func, \* its reducer_func: None or Some(function)
    rows,         \* history: the rows mapreduce.run() returned
    run_results,  \* its local results
    ri,           \* how many rows the list comprehension of line 113 has consumed
    mapped,       \* the list that comprehension builds
    calls,        \* history: the calls of mapper_func and reducer_func, in order
    rret,         \* what run_map_reduce returned
    cpc,          \* of each of two callers of load, where its load is: "idle",
                  \* "loop", "returned", "raised"
    ckey,         \* the key of each caller's load
    cobj,         \* the local riak_object of each caller's load
    cnmig,        \* history: the migrator invocations of each caller's load
    cret,         \* the return value of each caller's load
    cexc,         \* the exception leaving each caller's load
    overlapped    \* history: a load has invoked a migrator while the other
                  \* was between two invocations of its own

pvars == <<kv, VERSION, MIGRATOR, stored>>
lvars == <<pc, key, riak_obj, start, nmig, ret, exc>>
bvars == <<bpc, keys, idx, objs, loaded>>
mvars == <<phaseless, mpc, query, sent, response, decoded, chunks, ci,
           phase_results, mresult, merror>>
svars == <<buckets, spc, todo, cur, bkeys, before, deleted>>
ivars == <<ikey, fetched, built>>
rvars == <<rpc, mapper_func, reducer_func, rows, run_results, ri, mapped, calls, rret>>
cvars == <<cpc, ckey, cobj, cnmig, cret, cexc, overlapped>>
xvars == <<svars, ivars, rvars, cvars>>
not_svars == <<pvars, lvars, bvars, mvars, ivars, rvars, cvars>>
not_ivars == <<pvars, lvars, bvars, mvars, svars, rvars, cvars>>
not_rvars == <<pvars, lvars, bvars, mvars, svars, ivars, cvars>>
not_cvars == <<lvars, bvars, mvars, svars, ivars, rvars>>
vars == <<pvars, lvars, bvars, mvars, xvars>>

\* ------------------------------------------------------------- the store's buckets
\* self.bucket_prefix, and the names of the buckets the Riak node holds: two
\* of this manager, one whose name is a proper prefix of the prefix, one
\* that has the prefix further in.
bucket_prefix == <<"p", ".">>
BucketNames == {<<"p", ".", "a">>, <<"p", ".", "b">>, <<"p">>, <<"q", "p", ".">>}
NoBucket == <<>>
Contents == [Keys -> {None} \cup {Some(f) : f \in Fields}]
EmptyStore == [b \in BucketNames |-> [k \in Keys |-> None]]

\* Manager.bucket_for_modelcls(modelcls): the bucket of the model class under
\* the manager's prefix.
modelcls_bucket == <<"a">>
bucket_for_modelcls == bucket_prefix \o modelcls_bucket

\* ------------------------------------------------------------- fetch results
\* result['metadata']['content-type'] of a stored object.
ObjectContentTypes == {"application/json", "text/json"}

\* result['metadata']['index']: a list of (name, value) pairs, or a dict from
\* names to values, which has its names in an iteration order of its own.
IndexNames == {"i", "j"}
IndexValues == {"1", "2"}
IndexPairs == {<<n, v>> : n \in IndexNames, v \in IndexValues}
IndexLists == SeqsUpTo(IndexPairs, MaxIndexes)
NameOrders == {s \in SeqsUpTo(IndexNames, MaxIndexes) :
                 \A a, b \in 1 .. Len(s) : s[a] = s[b] => a = b}
index_list(pairs) ==
    [form |-> "list", pairs |-> pairs, names |-> <<>>, values |-> <<>>]
index_dict(names, values) ==
    [form |-> "dict", pairs |-> <<>>, names |-> names, values |-> values]
Indexes ==
    {index_list(l) : l \in IndexLists}
    \cup UNION {{index_dict(o, v) : v \in [{o[i] : i \in 1 .. Len(o)} -> IndexValues]} :
                   o \in NameOrders}
NoIndexes == <<>>

\* A fetch result: {'metadata': {'content-type': ..., 'index': ...}, 'data': ...}
fetch_result(content_type, index, body) ==
    [metadata |-> [content_type |-> content_type, index |-> index], data |-> body]
NoFetched == LET r == fetch_result("application/json",
                                   index_list(<<>>),
                                   json_dumps([ver |-> NoVersion, fields |-> "x"]))
             IN  <<r, r>>

\* No riak_object is being built on its own.
index_idle ==
    /\ ikey = "A" /\ fetched = NoFetched /\ built = None

\* ------------------------------------------------------------- map-reduce rows
\* A row of a map-reduce result is the sequence of what has been applied to
\* it, outermost first, ending in the raw row.
RawRows == {<<"r1">>, <<"r2">>}
RowLists == SeqsUpTo(RawRows, MaxRows)
MapperFuncs == {"mapper_a", "mapper_b"}
ReducerFuncs == {"reducer_a", "reducer_b"}

\* What run_map_reduce hands back: the rows, and the reducer that was applied
\* to them ("" when none was).
returned_rows(rs) == [reduced_by |-> "", rows |-> rs]
NoReturn == returned_rows(<<>>)

\* No run_map_reduce is running.
run_idle ==
    /\ rpc = "idle" /\ mapper_func = None /\ reducer_func = None
    /\ rows = <<>> /\ run_results = <<>> /\ ri = 0 /\ mapped = <<>>
    /\ calls = <<>> /\ rret = NoReturn

\* ------------------------------------------------------------- callers
\* Two callers of load, each in a thread of its own.
Callers == {"c1", "c2"}
other(c) == CHOOSE d \in Callers : d /= c

\* Neither caller is in load.
callers_idle ==
    /\ cpc = [c \in Callers |-> "idle"]
    /\ ckey = [c \in Callers |-> "A"]
    /\ cobj = [c \in Callers |-> [bucket |-> NoBucket, key |-> "A", data |-> None,
                                  content_type |-> "", indexes |-> NoIndexes]]
    /\ cnmig = [c \in Callers |-> 0]
    /\ cret = [c \in Callers |-> None]
    /\ cexc = [c \in Callers |-> ""]
    /\ overlapped = FALSE

\* No purge_all is running.
purge_idle ==
    /\ spc = "idle" /\ todo = {} /\ cur = NoBucket /\ bkeys = {}
    /\ before = EmptyStore /\ deleted = {}

\* What the operations of another specification leave as it is.
others_idle ==
    /\ buckets = EmptyStore
    /\ purge_idle
    /\ index_idle
    /\ run_idle
    /\ callers_idle

NoObject == [bucket |-> NoBucket, key |-> "A", data |-> None,
             content_type |-> "", indexes |-> NoIndexes]

\* The conversion of line 72 forgotten: iterating a dict yields its keys, and
\* each entry is left with a name and no value.
index_entries_of_keys(index) ==
    IF index.form = "dict"
    THEN [i \in 1 .. Len(index.names) |-> <<index.names[i], "">>]
    ELSE index.pairs

\* Lines 66-72: the index entries of a fetch result, a dict's being its
\* items() and a list's the list itself.
index_entries(index) ==
    LET hasattr_items == index.form = "dict"
        items == [i \in 1 .. Len(index.names) |->
                     <<index.names[i], index.values[index.names[i]]>>]
    IN  IF hasattr_items THEN items ELSE index.pairs

\* riak_object with line 78 forgotten: a fresh object carries no $VERSION.
riak_object_unversioned(k, result) ==
    IF result /= None
    THEN [bucket |-> bucket_for_modelcls, key |-> k,
          data |-> Some(json_loads(result[1].data)),
          content_type |-> result[1].metadata.content_type,
          indexes |-> index_entries(result[1].metadata.index)]
    ELSE [bucket |-> bucket_for_modelcls, key |-> k,
          data |-> Some([ver |-> NoVersion, fields |-> "x"]),
          content_type |-> "application/json", indexes |-> NoIndexes]

\* Line 62 taking the bucket name of the model class as it is, without the
\* manager's prefix.
riak_object_unprefixed(k, result) ==
    IF result /= None
    THEN [bucket |-> modelcls_bucket, key |-> k,
          data |-> Some(json_loads(result[1].data)),
          content_type |-> result[1].metadata.content_type,
          indexes |-> index_entries(result[1].metadata.index)]
    ELSE [bucket |-> modelcls_bucket, key |-> k,
          data |-> Some([ver |-> VERSION, fields |-> "x"]),
          content_type |-> "application/json", indexes |-> NoIndexes]

\* RiakManager.riak_object(modelcls, key, result): built from a fetch result
\* when one is given (its encoded data decoded), else fresh at modelcls.VERSION.
riak_object(k, result) ==
    IF result /= None
    THEN [bucket |-> bucket_for_modelcls, key |-> k,
          data |-> Some(json_loads(result[1].data)),
          content_type |-> result[1].metadata.content_type,
          indexes |-> index_entries(result[1].metadata.index)]
    ELSE [bucket |-> bucket_for_modelcls, key |-> k,
          data |-> Some([ver |-> VERSION, fields |-> "x"]),
          content_type |-> "application/json", indexes |-> NoIndexes]

\* RiakObject.reload(): the stored body decoded, None when the key is absent.
reload(o) ==
    [o EXCEPT !.data = IF kv[o.key] = None THEN None
                       ELSE Some(json_loads(kv[o.key][1]))]

\* migrator(riak_object).get_riak_object() of a migrator that does o and does
\* not raise: the riak object it was handed, with the data the migration made.
get_riak_object(old, o) ==
    [old EXCEPT !.data = IF o.kind = "none" THEN None
                         ELSE Some([ver |-> o.ver, fields |-> o.fields])]

\* modelcls(self, key, _riak_object=riak_object)
modelcls(k, o) == [key |-> k, riak_object |-> o]

\* No load and no _load_multiple is running: their locals do not exist.
load_idle ==
    /\ pc = "idle" /\ key = "A" /\ riak_obj = NoObject /\ start = None
    /\ nmig = 0 /\ ret = None /\ exc = ""

batch_idle ==
    /\ bpc = "idle" /\ keys = <<>> /\ idx = 0 /\ objs = <<>> /\ loaded = <<>>

\* No mapred is running.
mapred_idle ==
    /\ mpc = "idle" /\ query = None /\ sent = FALSE /\ response = None
    /\ decoded = FALSE /\ chunks = <<>> /\ ci = 0
    /\ phase_results = [p \in Phases |-> None]
    /\ mresult = None /\ merror = NoError

\* A manager over a bucket that holds anything earlier deployments left there.
manager_init ==
    /\ kv \in [Keys -> {None} \cup {Some(b) : b \in Bodies}]
    /\ VERSION \in Versions
    /\ MIGRATOR = [v \in Versions |-> Unset]
    /\ stored = [k \in Keys |-> None]
    /\ load_idle
    /\ batch_idle

Init ==
    /\ manager_init
    /\ others_idle
    /\ phaseless = FALSE
    /\ mapred_idle

\* ------------------------------------------------------------- store, delete
\* store(modelobj) for a model object of modelcls with key k and field data f:
\* its riak object was built by riak_object(modelcls, k) and is written as it is.
store(k, f) ==
    /\ pc = "idle" /\ bpc = "idle"
    /\ LET o == [riak_object(k, None) EXCEPT !.data[1].fields = f]
       IN  kv' = [kv EXCEPT ![o.key] = Some(json_dumps(o.data[1]))]
    /\ stored' = [stored EXCEPT ![k] = Some(f)]
    /\ UNCHANGED <<VERSION, MIGRATOR, lvars, bvars, mvars, xvars>>

delete(k) ==
    /\ pc = "idle" /\ bpc = "idle"
    /\ kv' = [kv EXCEPT ![k] = None]
    /\ stored' = [stored EXCEPT ![k] = None]
    /\ UNCHANGED <<VERSION, MIGRATOR, lvars, bvars, mvars, xvars>>

\* ------------------------------------------------------------- load
\* What a fetch or a map-reduce row holds for a key of the bucket: nothing,
\* or the stored body with an index of either shape that has no entry.
prefetch(k, form) ==
    IF kv[k] = None THEN None
    ELSE Some(fetch_result("application/json",
                           IF form = "dict" THEN index_dict(<<>>, <<>>)
                           ELSE index_list(<<>>),
                           kv[k][1]))

\* Lines 90-92: build the riak object and, without a prefetched result,
\* reload it. A prefetched result is what the store holds for the key.
load_enter(k, prefetched) ==
    /\ pc = "idle"
    /\ \E form \in {"dict", "list"} :
         LET result == IF prefetched THEN prefetch(k, form) ELSE None
             o == riak_object(k, result)
         IN  riak_obj' = IF result = None THEN reload(o) ELSE o
    /\ key' = k
    /\ start' = riak_obj'.data
    /\ nmig' = 0
    /\ ret' = None
    /\ exc' = ""
    /\ pc' = "loop"

\* reload() fails in the transport: the exception leaves load.
load_enter_fails(k) ==
    /\ pc = "idle"
    /\ key' = k
    /\ riak_obj' = riak_object(k, None)
    /\ start' = None
    /\ nmig' = 0
    /\ ret' = None
    /\ exc' = "transport"
    /\ pc' = "raised"

\* load(modelcls, key) and load(modelcls, key, result) called by the application.
load(k, prefetched) ==
    /\ bpc = "idle"
    /\ load_enter(k, prefetched)
    /\ UNCHANGED <<pvars, bvars, mvars, xvars>>

load_fails(k) ==
    /\ bpc = "idle"
    /\ load_enter_fails(k)
    /\ UNCHANGED <<pvars, bvars, mvars, xvars>>

\* The loop's test forgotten: data that is None is wrapped like any other.
load_return_none_wraps ==
    /\ pc = "loop"
    /\ riak_obj.data = None
    /\ ret' = Some(modelcls(key, riak_obj))
    /\ pc' = "returned"
    /\ loaded' = IF bpc = "loading" THEN Append(loaded, <<key, ret'>>) ELSE loaded
    /\ UNCHANGED <<pvars, key, riak_obj, start, nmig, exc, bpc, keys, idx, objs, mvars, xvars>>

\* Line 95 false: the data is None, load returns None.
load_return_none ==
    /\ pc = "loop"
    /\ riak_obj.data = None
    /\ ret' = None
    /\ pc' = "returned"
    /\ loaded' = IF bpc = "loading" THEN Append(loaded, <<key, ret'>>) ELSE loaded
    /\ UNCHANGED <<pvars, key, riak_obj, start, nmig, exc, bpc, keys, idx, objs, mvars, xvars>>

\* Line 97 testing only that the data carries a version at all.
load_return_obj_any_version ==
    /\ pc = "loop"
    /\ riak_obj.data /= None
    /\ riak_obj.data[1].ver /= NoVersion
    /\ ret' = Some(modelcls(key, riak_obj))
    /\ pc' = "returned"
    /\ loaded' = IF bpc = "loading" THEN Append(loaded, <<key, ret'>>) ELSE loaded
    /\ UNCHANGED <<pvars, key, riak_obj, start, nmig, exc, bpc, keys, idx, objs, mvars, xvars>>

\* Lines 96-98: the data is at modelcls.VERSION, load returns the model object.
load_return_obj ==
    /\ pc = "loop"
    /\ riak_obj.data /= None
    /\ riak_obj.data[1].ver = VERSION
    /\ ret' = Some(modelcls(key, riak_obj))
    /\ pc' = "returned"
    /\ loaded' = IF bpc = "loading" THEN Append(loaded, <<key, ret'>>) ELSE loaded
    /\ UNCHANGED <<pvars, key, riak_obj, start, nmig, exc, bpc, keys, idx, objs, mvars, xvars>>

\* Line 100 without its assignment: the migrator's object is dropped.
migrate_drops_result(o) ==
    /\ pc = "loop"
    /\ riak_obj.data /= None
    /\ riak_obj.data[1].ver /= VERSION
    /\ nmig' = IF nmig < MaxMigrations THEN nmig + 1 ELSE nmig
    /\ riak_obj' = riak_obj
    /\ IF o.kind = "raise"
       THEN pc' = "raised" /\ exc' = "migrator"
       ELSE pc' = "loop" /\ exc' = ""
    /\ UNCHANGED <<kv, VERSION, stored, key, start, ret, bvars, mvars, xvars>>

\* The loop with a limit on its turns: after two migrator invocations the
\* next one is refused with an exception.
migrate_gives_up(o) ==
    /\ pc = "loop"
    /\ riak_obj.data /= None
    /\ riak_obj.data[1].ver /= VERSION
    /\ nmig' = IF nmig < MaxMigrations THEN nmig + 1 ELSE nmig
    /\ IF o.kind = "obj" /\ nmig < 2
       THEN /\ riak_obj' = [riak_obj EXCEPT !.data = Some([ver |-> o.ver, fields |-> o.fields])]
            /\ pc' = "loop" /\ exc' = ""
       ELSE /\ riak_obj' = riak_obj
            /\ pc' = "raised" /\ exc' = "migrator"
    /\ UNCHANGED <<kv, VERSION, stored, key, start, ret, bvars, mvars, xvars>>

\* Lines 99-100 with the migrator doing o: the next riak object, or the
\* migrator's exception leaving load.
migrate(o) ==
    /\ pc = "loop"
    /\ riak_obj.data /= None
    /\ riak_obj.data[1].ver /= VERSION
    /\ nmig' = IF nmig < MaxMigrations THEN nmig + 1 ELSE nmig
    /\ CASE o.kind = "obj" ->
              /\ riak_obj' = get_riak_object(riak_obj, o)
              /\ pc' = "loop" /\ exc' = ""
         [] o.kind = "none" ->
              /\ riak_obj' = get_riak_object(riak_obj, o)
              /\ pc' = "loop" /\ exc' = ""
         [] OTHER ->
              /\ riak_obj' = riak_obj
              /\ pc' = "raised" /\ exc' = "migrator"
    /\ UNCHANGED <<kv, VERSION, stored, key, start, ret, bvars, mvars, xvars>>

\* A migrator that is any callable: each invocation does what it likes.
load_migrate ==
    \E o \in Outcomes :
        /\ migrate(o)
        /\ UNCHANGED MIGRATOR

\* modelcls.MIGRATOR(modelcls, self, data_version): a migrator whose behaviour is
\* a function of the data_version it is built from. What it does for a version
\* is settled at its first invocation and repeated ever after.
load_migrate_det ==
    /\ pc = "loop"
    /\ riak_obj.data /= None
    /\ \E o \in Outcomes :
        /\ MIGRATOR[riak_obj.data[1].ver] \in {Unset, o}
        /\ migrate(o)
        /\ MIGRATOR' = [MIGRATOR EXCEPT ![riak_obj.data[1].ver] = o]

\* load's caller takes the return value or the exception.
load_done ==
    /\ bpc = "idle"
    /\ pc \in {"returned", "raised"}
    /\ pc' = "idle" /\ key' = "A" /\ riak_obj' = NoObject /\ start' = None
    /\ nmig' = 0 /\ ret' = None /\ exc' = ""
    /\ UNCHANGED <<pvars, bvars, mvars, xvars>>

\* ------------------------------------------------------------- _load_multiple
load_multiple ==
    /\ bpc = "idle" /\ pc = "idle"
    /\ \E ks \in SeqsUpTo(Keys, MaxKeys) : keys' = ks
    /\ idx' = 0 /\ objs' = <<>> /\ loaded' = <<>>
    /\ bpc' = "iter"
    /\ UNCHANGED <<pvars, lvars, mvars, xvars>>

\* The generator calls load for the next key.
batch_next ==
    /\ bpc = "iter" /\ idx < Len(keys)
    /\ load_enter(keys[idx + 1], FALSE)
    /\ bpc' = "loading"
    /\ UNCHANGED <<pvars, keys, idx, objs, loaded, mvars, xvars>>

batch_next_fails ==
    /\ bpc = "iter" /\ idx < Len(keys)
    /\ load_enter_fails(keys[idx + 1])
    /\ bpc' = "loading"
    /\ UNCHANGED <<pvars, keys, idx, objs, loaded, mvars, xvars>>

\* Line 105 without its filter.
batch_collect_keeps_none ==
    /\ bpc = "loading" /\ pc = "returned"
    /\ objs' = Append(objs, ret)
    /\ idx' = idx + 1
    /\ pc' = "idle" /\ key' = "A" /\ riak_obj' = NoObject /\ start' = None
    /\ nmig' = 0 /\ ret' = None /\ exc' = ""
    /\ bpc' = "iter"
    /\ UNCHANGED <<pvars, keys, loaded, mvars, xvars>>

\* Line 105: the list keeps what load returned unless it is None.
batch_collect ==
    /\ bpc = "loading" /\ pc = "returned"
    /\ objs' = IF ret /= None THEN Append(objs, ret) ELSE objs
    /\ idx' = idx + 1
    /\ pc' = "idle" /\ key' = "A" /\ riak_obj' = NoObject /\ start' = None
    /\ nmig' = 0 /\ ret' = None /\ exc' = ""
    /\ bpc' = "iter"
    /\ UNCHANGED <<pvars, keys, loaded, mvars, xvars>>

\* An exception of load leaves _load_multiple.
batch_raise ==
    /\ bpc = "loading" /\ pc = "raised"
    /\ pc' = "idle" /\ key' = "A" /\ riak_obj' = NoObject /\ start' = None
    /\ nmig' = 0 /\ ret' = None /\ exc' = ""
    /\ bpc' = "raised"
    /\ UNCHANGED <<pvars, keys, idx, objs, loaded, mvars, xvars>>

batch_return ==
    /\ bpc = "iter" /\ idx = Len(keys)
    /\ bpc' = "returned"
    /\ UNCHANGED <<pvars, lvars, keys, idx, objs, loaded, mvars, xvars>>

batch_done ==
    /\ bpc \in {"returned", "raised"}
    /\ bpc' = "idle" /\ keys' = <<>> /\ idx' = 0 /\ objs' = <<>> /\ loaded' = <<>>
    /\ UNCHANGED <<pvars, lvars, mvars, xvars>>

\* ------------------------------------------------------------- mapred
Queries == {None, Some(<<>>), Some(<<"map">>)}

\* Line 140 when only a query that is None counts as phase-less.
phaseless_unsupported_none_only(q) == ~phaseless /\ q = None

\* Line 140: not self.phaseless_mapred() and (query is None or len(query) is 0)
phaseless_unsupported(q) == ~phaseless /\ (q = None \/ Len(q[1]) = 0)

\* Lines 140-154: the phase-less test, then the job is posted.
mapred(q) ==
    /\ mpc = "idle"
    /\ query' = q
    /\ IF phaseless_unsupported(q)
       THEN /\ mpc' = "raised"
            /\ merror' = exception("phaseless")
            /\ sent' = FALSE
       ELSE /\ mpc' = "waiting"
            /\ merror' = NoError
            /\ sent' = TRUE
    /\ UNCHANGED <<xvars, pvars, lvars, bvars, phaseless, response, decoded, chunks, ci,
                   phase_results, mresult>>

\* http_request returns a response.
http_request ==
    /\ mpc = "waiting"
    /\ \E r \in Responses : response' = Some(r)
    /\ mpc' = "response"
    /\ UNCHANGED <<xvars, pvars, lvars, bvars, phaseless, query, sent, decoded, chunks, ci,
                   phase_results, mresult, merror>>

\* http_request fails in the transport: the exception leaves mapred.
http_request_fails ==
    /\ mpc = "waiting"
    /\ mpc' = "raised"
    /\ merror' = exception("transport")
    /\ UNCHANGED <<xvars, pvars, lvars, bvars, phaseless, query, sent, response, decoded,
                   chunks, ci, phase_results, mresult>>

\* Lines 157-159: a status that is not 200 raises the map-reduce error.
mapred_status_error ==
    /\ mpc = "response"
    /\ status_not_ok(response[1].headers.http_code)
    /\ mpc' = "raised"
    /\ merror' = raise_mapred_error(response[1].headers, response[1].body)
    /\ UNCHANGED <<xvars, pvars, lvars, bvars, phaseless, query, sent, response, decoded,
                   chunks, ci, phase_results, mresult>>

\* Lines 160 and 167-182: decode_chunked_response(headers, body). A multipart
\* message goes on to decode_chunks; any other is decoded here.
decode_chunked_response ==
    /\ mpc = "response"
    /\ ~status_not_ok(response[1].headers.http_code)
    /\ decoded' = TRUE
    /\ LET headers == response[1].headers
           body == response[1].body
           msg == message_from_string(headers.content_type, body)
           payload == IF strip(msg.payload) = "" THEN "[]" ELSE msg.payload
           result == json_loads_document(payload)
       IN  IF msg.is_multipart
           THEN /\ chunks' = msg.parts
                /\ mpc' = "chunks"
                /\ UNCHANGED <<mresult, merror>>
           ELSE /\ chunks' = chunks
                /\ IF result = None
                   THEN /\ mpc' = "raised"
                        /\ merror' = exception("ValueError")
                        /\ mresult' = mresult
                   ELSE IF is_error_document(result[1])
                   THEN /\ mpc' = "raised"
                        /\ merror' = raise_mapred_error(headers, body)
                        /\ mresult' = mresult
                   ELSE /\ mpc' = "returned"
                        /\ mresult' = result
                        /\ merror' = merror
    /\ UNCHANGED <<xvars, pvars, lvars, bvars, phaseless, query, sent, response, ci,
                   phase_results>>

\* Line 188 assigning where it should extend.
extend_overwrites(results, part) ==
    [results EXCEPT ![part.phase] = Some(part.data)]

\* Line 188: phase_results.setdefault(part['phase'], []).extend(part['data'])
extend(results, part) ==
    [results EXCEPT ![part.phase] =
        Some((IF @ = None THEN <<>> ELSE @[1]) \o part.data)]

\* Lines 186-188: one turn of decode_chunks' loop.
decode_chunks_step ==
    /\ mpc = "chunks"
    /\ ci < Len(chunks)
    /\ LET part == json_loads_chunk(chunks[ci + 1])
       IN  IF part = None
           THEN /\ mpc' = "raised"
                /\ merror' = exception("ValueError")
                /\ UNCHANGED <<ci, phase_results>>
           ELSE /\ phase_results' = extend(phase_results, part[1])
                /\ ci' = ci + 1
                /\ UNCHANGED <<mpc, merror>>
    /\ UNCHANGED <<xvars, pvars, lvars, bvars, phaseless, query, sent, response, decoded,
                   chunks, mresult>>

\* Line 190 taking the phase of the chunk that came last.
last_phase(results, parts) ==
    IF parts = <<>> THEN None
    ELSE results[json_loads_chunk(parts[Len(parts)])[1].phase]

\* Line 190: phase_results[max(phase_results.keys())]; None stands for the
\* ValueError of max() on no keys.
max_phase(results, parts) ==
    LET phase_keys == {p \in Phases : results[p] /= None}
    IN  IF phase_keys = {} THEN None ELSE results[Max(phase_keys)]

\* Lines 189-190: decode_chunks returns, and mapred with it.
decode_chunks_return ==
    /\ mpc = "chunks"
    /\ ci = Len(chunks)
    /\ LET result == max_phase(phase_results, chunks)
       IN  IF result = None
           THEN /\ mpc' = "raised"
                /\ merror' = exception("ValueError")
                /\ mresult' = mresult
           ELSE /\ mpc' = "returned"
                /\ mresult' = Some(list_document(result[1]))
                /\ merror' = merror
    /\ UNCHANGED <<xvars, pvars, lvars, bvars, phaseless, query, sent, response, decoded,
                   chunks, ci, phase_results>>

\* mapred's caller takes the return value or the exception.
mapred_done ==
    /\ mpc \in {"returned", "raised"}
    /\ mpc' = "idle" /\ query' = None /\ sent' = FALSE /\ response' = None
    /\ decoded' = FALSE /\ chunks' = <<>> /\ ci' = 0
    /\ phase_results' = [p \in Phases |-> None]
    /\ mresult' = None /\ merror' = NoError
    /\ UNCHANGED <<xvars, pvars, lvars, bvars, phaseless>>

Next ==
    \/ \E k \in Keys, f \in Fields : store(k, f)
    \/ \E k \in Keys : delete(k)
    \/ \E k \in Keys, p \in BOOLEAN : load(k, p)
    \/ \E k \in Keys : load_fails(k)
    \/ load_return_none
    \/ load_return_obj
    \/ load_migrate
    \/ load_done
    \/ load_multiple
    \/ batch_next
    \/ batch_next_fails
    \/ batch_collect
    \/ batch_raise
    \/ batch_return
    \/ batch_done

Spec == Init /\ [][Next]_vars

\* The manager with migrators that are functions of the data version, and a
\* load that, once called, keeps running: the loop's next step is always taken.
NextDet ==
    \/ \E k \in Keys, f \in Fields : store(k, f)
    \/ \E k \in Keys : delete(k)
    \/ \E k \in Keys, p \in BOOLEAN : load(k, p)
    \/ \E k \in Keys : load_fails(k)
    \/ load_return_none
    \/ load_return_obj
    \/ load_migrate_det
    \/ load_done

SpecDet ==
    /\ Init
    /\ [][NextDet]_vars
    /\ WF_vars(load_return_none)
    /\ WF_vars(load_return_obj)
    /\ WF_vars(load_migrate_det)


\* ------------------------------------------------------------- specifications of mapred
\* The transport of a manager that is otherwise left alone, over a Riak node
\* that does or does not run phase-less map-reduce.
InitMapred ==
    /\ kv = [k \in Keys |-> None]
    /\ VERSION = NoVersion
    /\ MIGRATOR = [v \in Versions |-> Unset]
    /\ stored = [k \in Keys |-> None]
    /\ load_idle
    /\ batch_idle
    /\ phaseless \in BOOLEAN
    /\ mapred_idle
    /\ others_idle

NextMapred ==
    \/ \E q \in Queries : mapred(q)
    \/ http_request
    \/ http_request_fails
    \/ mapred_status_error
    \/ decode_chunked_response
    \/ decode_chunks_step
    \/ decode_chunks_return
    \/ mapred_done

SpecMapred == InitMapred /\ [][NextMapred]_vars

\* ------------------------------------------------------------- riak_object from a result
\* riak_object(modelcls, key, result) called with each of the two results.
riak_object_built ==
    /\ built = None
    /\ built' = Some(<<riak_object(ikey, Some(fetched[1])),
                       riak_object(ikey, Some(fetched[2]))>>)
    /\ UNCHANGED <<ikey, fetched, not_ivars>>

\* The two objects are dropped and two other results are fetched: the same
\* content type and body with an index that came as a dict in the one and as
\* a list of the same pairs, in any order, in the other.
riak_object_next ==
    /\ built /= None
    /\ built' = None
    /\ ikey' \in Keys
    /\ \E ct \in ObjectContentTypes, body \in Bodies, d \in Indexes, l \in Indexes :
         /\ d.form = "dict" /\ l.form = "list"
         /\ Len(l.pairs) = Len(d.names)
         /\ \A i \in 1 .. Len(d.names) :
               \E j \in 1 .. Len(l.pairs) : l.pairs[j] = <<d.names[i], d.values[d.names[i]]>>
         /\ fetched' = <<fetch_result(ct, d, body), fetch_result(ct, l, body)>>
    /\ UNCHANGED not_ivars

\* A manager that only builds riak objects from fetch results.
InitIndex ==
    /\ kv = [k \in Keys |-> None]
    /\ VERSION \in Versions
    /\ MIGRATOR = [v \in Versions |-> Unset]
    /\ stored = [k \in Keys |-> None]
    /\ load_idle
    /\ batch_idle
    /\ phaseless = FALSE
    /\ mapred_idle
    /\ buckets = EmptyStore
    /\ purge_idle
    /\ index_idle
    /\ run_idle
    /\ callers_idle

NextIndex ==
    \/ riak_object_built
    \/ riak_object_next

SpecIndex == InitIndex /\ [][NextIndex]_vars

\* ------------------------------------------------------------- run_map_reduce
\* mapper_func(self, row) and reducer_func(self, results): the application of
\* a function is held as what it was applied to, marked with the function.
mapper_call(f, row) == <<f>> \o row
reducer_call(g, rs) == [reduced_by |-> g, rows |-> rs]
call(f, args) == [fn |-> f, args |-> args]

\* run_map_reduce(mapreduce, mapper_func, reducer_func) called by the application.
run_map_reduce(m, r) ==
    /\ rpc = "idle"
    /\ rpc' = "running"
    /\ mapper_func' = m
    /\ reducer_func' = r
    /\ UNCHANGED <<rows, run_results, ri, mapped, calls, rret, not_rvars>>

\* Line 111: mapreduce.run() returns the rows of the job.
run_returns ==
    /\ rpc = "running"
    /\ \E rs \in RowLists :
         /\ rows' = rs
         /\ run_results' = rs
    /\ rpc' = "mapping"
    /\ UNCHANGED <<mapper_func, reducer_func, ri, mapped, calls, rret, not_rvars>>

\* Line 111: mapreduce.run() raises, and the exception leaves run_map_reduce.
run_fails ==
    /\ rpc = "running"
    /\ rpc' = "raised"
    /\ UNCHANGED <<mapper_func, reducer_func, rows, run_results, ri, mapped, calls, rret,
                   not_rvars>>

\* Line 113: the comprehension applies mapper_func to the next row.
run_map_row ==
    /\ rpc = "mapping"
    /\ mapper_func /= None
    /\ ri < Len(run_results)
    /\ ri' = ri + 1
    /\ mapped' = Append(mapped, mapper_call(mapper_func[1], run_results[ri + 1]))
    /\ calls' = Append(calls, call(mapper_func[1], <<run_results[ri + 1]>>))
    /\ UNCHANGED <<rpc, mapper_func, reducer_func, rows, run_results, rret, not_rvars>>

\* Lines 112-113: without a mapper the rows stay; with one, the list the
\* comprehension has built becomes the results.
run_mapped ==
    /\ rpc = "mapping"
    /\ mapper_func = None \/ ri = Len(run_results)
    /\ run_results' = IF mapper_func = None THEN run_results ELSE mapped
    /\ rpc' = "reducing"
    /\ UNCHANGED <<mapper_func, reducer_func, rows, ri, mapped, calls, rret, not_rvars>>

\* The reducer handed the rows mapreduce.run() returned, not the results.
run_reduce_raw ==
    /\ rpc = "reducing"
    /\ IF reducer_func = None
       THEN /\ rret' = returned_rows(run_results)
            /\ calls' = calls
       ELSE /\ rret' = reducer_call(reducer_func[1], rows)
            /\ calls' = Append(calls, call(reducer_func[1], rows))
    /\ rpc' = "returned"
    /\ UNCHANGED <<mapper_func, reducer_func, rows, run_results, ri, mapped, not_rvars>>

\* Lines 114-116: the reducer, when there is one, is applied to the results,
\* and what it makes of them is returned.
run_reduce ==
    /\ rpc = "reducing"
    /\ IF reducer_func = None
       THEN /\ rret' = returned_rows(run_results)
            /\ calls' = calls
       ELSE /\ rret' = reducer_call(reducer_func[1], run_results)
            /\ calls' = Append(calls, call(reducer_func[1], run_results))
    /\ rpc' = "returned"
    /\ UNCHANGED <<mapper_func, reducer_func, rows, run_results, ri, mapped, not_rvars>>

\* The application has taken what run_map_reduce returned or raised.
run_done ==
    /\ rpc \in {"returned", "raised"}
    /\ rpc' = "idle" /\ mapper_func' = None /\ reducer_func' = None
    /\ rows' = <<>> /\ run_results' = <<>> /\ ri' = 0 /\ mapped' = <<>>
    /\ calls' = <<>> /\ rret' = NoReturn
    /\ UNCHANGED not_rvars

\* A manager that only runs map-reduce jobs.
InitRun ==
    /\ kv = [k \in Keys |-> None]
    /\ VERSION = NoVersion
    /\ MIGRATOR = [v \in Versions |-> Unset]
    /\ stored = [k \in Keys |-> None]
    /\ load_idle
    /\ batch_idle
    /\ phaseless = FALSE
    /\ mapred_idle
    /\ buckets = EmptyStore
    /\ purge_idle
    /\ index_idle
    /\ run_idle
    /\ callers_idle

NextRun ==
    \/ \E m \in {None} \cup {Some(f) : f \in MapperFuncs},
          r \in {None} \cup {Some(g) : g \in ReducerFuncs} : run_map_reduce(m, r)
    \/ run_returns
    \/ run_fails
    \/ run_map_row
    \/ run_mapped
    \/ run_reduce
    \/ run_done

SpecRun == InitRun /\ [][NextRun]_vars

\* ------------------------------------------------------------- two loads at once
\* The riak object kept in one place, where every call finds the same one.
frame_shared(c) == "c1"

\* Line 90: riak_object is a local of the call, so each call has its own.
frame(c) == c

\* Lines 90-92 of a load(modelcls, key) by caller c.
conc_load(c, k) ==
    /\ cpc[c] = "idle"
    /\ cobj' = [cobj EXCEPT ![frame(c)] = reload(riak_object(k, None))]
    /\ ckey' = [ckey EXCEPT ![c] = k]
    /\ cnmig' = [cnmig EXCEPT ![c] = 0]
    /\ cret' = [cret EXCEPT ![c] = None]
    /\ cexc' = [cexc EXCEPT ![c] = ""]
    /\ cpc' = [cpc EXCEPT ![c] = "loop"]
    /\ overlapped' = IF cpc[other(c)] = "idle" THEN FALSE ELSE overlapped
    /\ UNCHANGED <<pvars, not_cvars>>

\* Its reload() fails in the transport.
conc_load_fails(c, k) ==
    /\ cpc[c] = "idle"
    /\ cobj' = [cobj EXCEPT ![frame(c)] = riak_object(k, None)]
    /\ ckey' = [ckey EXCEPT ![c] = k]
    /\ cnmig' = [cnmig EXCEPT ![c] = 0]
    /\ cret' = [cret EXCEPT ![c] = None]
    /\ cexc' = [cexc EXCEPT ![c] = "transport"]
    /\ cpc' = [cpc EXCEPT ![c] = "raised"]
    /\ overlapped' = IF cpc[other(c)] = "idle" THEN FALSE ELSE overlapped
    /\ UNCHANGED <<pvars, not_cvars>>

\* Line 95 false for caller c.
conc_return_none(c) ==
    /\ cpc[c] = "loop"
    /\ cobj[frame(c)].data = None
    /\ cret' = [cret EXCEPT ![c] = None]
    /\ cpc' = [cpc EXCEPT ![c] = "returned"]
    /\ UNCHANGED <<pvars, ckey, cobj, cnmig, cexc, overlapped, not_cvars>>

\* Lines 96-98 for caller c.
conc_return_obj(c) ==
    /\ cpc[c] = "loop"
    /\ cobj[frame(c)].data /= None
    /\ cobj[frame(c)].data[1].ver = VERSION
    /\ cret' = [cret EXCEPT ![c] = Some(modelcls(ckey[c], cobj[frame(c)]))]
    /\ cpc' = [cpc EXCEPT ![c] = "returned"]
    /\ UNCHANGED <<pvars, ckey, cobj, cnmig, cexc, overlapped, not_cvars>>

\* Lines 99-100 for caller c, with migrators that are functions of the
\* data version.
conc_migrate(c) ==
    /\ cpc[c] = "loop"
    /\ cobj[frame(c)].data /= None
    /\ cobj[frame(c)].data[1].ver /= VERSION
    /\ \E o \in Outcomes :
         /\ MIGRATOR[cobj[frame(c)].data[1].ver] \in {Unset, o}
         /\ MIGRATOR' = [MIGRATOR EXCEPT ![cobj[frame(c)].data[1].ver] = o]
         /\ IF o.kind = "raise"
            THEN /\ cobj' = cobj
                 /\ cpc' = [cpc EXCEPT ![c] = "raised"]
                 /\ cexc' = [cexc EXCEPT ![c] = "migrator"]
            ELSE /\ cobj' = [cobj EXCEPT ![frame(c)] = get_riak_object(@, o)]
                 /\ cpc' = cpc
                 /\ cexc' = cexc
    /\ cnmig' = [cnmig EXCEPT ![c] = IF @ < MaxMigrations THEN @ + 1 ELSE @]
    /\ overlapped' = (overlapped \/ (cpc[other(c)] = "loop" /\ cnmig[other(c)] >= 1))
    /\ UNCHANGED <<kv, VERSION, stored, ckey, cret, not_cvars>>

\* Caller c takes the return value or the exception.
conc_done(c) ==
    /\ cpc[c] \in {"returned", "raised"}
    /\ cpc' = [cpc EXCEPT ![c] = "idle"]
    /\ ckey' = [ckey EXCEPT ![c] = "A"]
    /\ cobj' = [cobj EXCEPT ![frame(c)] = NoObject]
    /\ cnmig' = [cnmig EXCEPT ![c] = 0]
    /\ cret' = [cret EXCEPT ![c] = None]
    /\ cexc' = [cexc EXCEPT ![c] = ""]
    /\ overlapped' = IF cpc[other(c)] = "idle" THEN FALSE ELSE overlapped
    /\ UNCHANGED <<pvars, not_cvars>>

\* A manager whose load is called from two threads, over a bucket that no
\* one writes meanwhile.
InitConc ==
    /\ manager_init
    /\ others_idle
    /\ phaseless = FALSE
    /\ mapred_idle

NextConc ==
    \/ \E c \in Callers, k \in Keys : conc_load(c, k)
    \/ \E c \in Callers, k \in Keys : conc_load_fails(c, k)
    \/ \E c \in Callers : conc_return_none(c)
    \/ \E c \in Callers : conc_return_obj(c)
    \/ \E c \in Callers : conc_migrate(c)
    \/ \E c \in Callers : conc_done(c)

SpecConc == InitConc /\ [][NextConc]_vars

\* ------------------------------------------------------------- purge_all
\* The filter of line 126 forgotten: every bucket is taken for the manager's.
startswith_anything(name, prefix) == TRUE

\* str.startswith: the prefix is used up before the name differs from it.
RECURSIVE startswith(_, _)
startswith(name, prefix) ==
    IF prefix = <<>> THEN TRUE
    ELSE IF name = <<>> THEN FALSE
    ELSE Head(name) = Head(prefix) /\ startswith(Tail(name), Tail(prefix))

\* bucket.get_keys(): the keys the bucket holds now.
get_keys(b) == {k \in Keys : buckets[b][k] /= None}

\* purge_all() called by the application.
purge_all ==
    /\ spc = "idle"
    /\ spc' = "start"
    /\ before' = buckets
    /\ deleted' = {}
    /\ UNCHANGED <<buckets, todo, cur, bkeys, not_svars>>

\* Line 124: client.get_buckets()
purge_get_buckets ==
    /\ spc = "start"
    /\ todo' = BucketNames
    /\ spc' = "buckets"
    /\ UNCHANGED <<buckets, cur, bkeys, before, deleted, not_svars>>

\* Lines 125-128: the next bucket name, in whatever order the node listed
\* them; a bucket of the manager has its keys listed, any other is passed over.
purge_next_bucket ==
    /\ spc = "buckets"
    /\ \E b \in todo :
        /\ todo' = todo \ {b}
        /\ IF startswith(b, bucket_prefix)
           THEN /\ cur' = b
                /\ bkeys' = get_keys(b)
                /\ spc' = "keys"
           ELSE UNCHANGED <<cur, bkeys, spc>>
    /\ UNCHANGED <<buckets, before, deleted, not_svars>>

\* Lines 128-130: the next key of the bucket is fetched and deleted.
purge_delete_key ==
    /\ spc = "keys"
    /\ \E k \in bkeys :
        /\ bkeys' = bkeys \ {k}
        /\ buckets' = [buckets EXCEPT ![cur][k] = None]
        /\ deleted' = deleted \cup {<<cur, k>>}
    /\ UNCHANGED <<spc, todo, cur, before, not_svars>>

\* The inner loop has run out of keys.
purge_bucket_done ==
    /\ spc = "keys"
    /\ bkeys = {}
    /\ cur' = NoBucket
    /\ spc' = "buckets"
    /\ UNCHANGED <<buckets, todo, bkeys, before, deleted, not_svars>>

\* The outer loop has run out of buckets: purge_all returns.
purge_return ==
    /\ spc = "buckets"
    /\ todo = {}
    /\ spc' = "returned"
    /\ UNCHANGED <<buckets, todo, cur, bkeys, before, deleted, not_svars>>

\* get_buckets, get_keys, get or delete fails in the transport: the
\* exception leaves purge_all where the sweep stands.
purge_fails ==
    /\ spc \in {"start", "buckets", "keys"}
    /\ spc = "buckets" => \E b \in todo : startswith(b, bucket_prefix)
    /\ spc = "keys" => bkeys /= {}
    /\ spc' = "raised"
    /\ UNCHANGED <<buckets, todo, cur, bkeys, before, deleted, not_svars>>

\* The application has taken what purge_all returned or raised.
purge_done ==
    /\ spc \in {"returned", "raised"}
    /\ spc' = "idle" /\ todo' = {} /\ cur' = NoBucket /\ bkeys' = {}
    /\ before' = EmptyStore /\ deleted' = {}
    /\ UNCHANGED <<buckets, not_svars>>

\* A manager that only purges, over a node that holds anything.
InitPurge ==
    /\ kv = [k \in Keys |-> None]
    /\ VERSION = NoVersion
    /\ MIGRATOR = [v \in Versions |-> Unset]
    /\ stored = [k \in Keys |-> None]
    /\ load_idle
    /\ batch_idle
    /\ phaseless = FALSE
    /\ mapred_idle
    /\ buckets \in [BucketNames -> Contents]
    /\ purge_idle
    /\ index_idle
    /\ run_idle
    /\ callers_idle

NextPurge ==
    \/ purge_all
    \/ purge_get_buckets
    \/ purge_next_bucket
    \/ purge_delete_key
    \/ purge_bucket_done
    \/ purge_return
    \/ purge_fails
    \/ purge_done

SpecPurge == InitPurge /\ [][NextPurge]_vars

\* ------------------------------------------------------------- the claims
\* The version of what load has in hand, and of what it was given.
version_of(data) == data[1].ver
is_object(r) == r /= None

\* C1: whenever load returns a model object, the $VERSION of its payload is
\* modelcls.VERSION, whatever was stored and whatever the migrators did; the
\* same holds of every object _load_multiple has collected.
C1_LoadReturnsCurrentVersion ==
    /\ (pc = "returned" /\ ret /= None) =>
           /\ ret[1].riak_object.data /= None
           /\ version_of(ret[1].riak_object.data) = VERSION
    /\ \A i \in 1 .. Len(objs) :
           objs[i] /= None => /\ objs[i][1].riak_object.data /= None
                              /\ version_of(objs[i][1].riak_object.data) = VERSION

\* load has returned an object for data that was stored at another version.
C1_Witness ==
    /\ pc = "returned" /\ ret /= None
    /\ start /= None /\ version_of(start) /= VERSION
    /\ nmig >= 1

\* The stored object is older than modelcls.VERSION (no version is the oldest).
StartsOlder == start /= None /\ version_of(start) < VERSION

\* Every migrator step known so far strictly advances towards modelcls.VERSION.
WellBehaved ==
    \A v \in Versions :
        (v < VERSION /\ MIGRATOR[v] /= Unset) =>
            /\ MIGRATOR[v].kind = "obj"
            /\ v < MIGRATOR[v].ver
            /\ MIGRATOR[v].ver <= VERSION

\* The migrator invocations from version v to modelcls.VERSION, read off the
\* migrator alone.
RECURSIVE ChainLength(_, _)
ChainLength(v, fuel) ==
    IF v = VERSION \/ fuel = 0 \/ MIGRATOR[v].kind /= "obj" THEN 0
    ELSE 1 + ChainLength(MIGRATOR[v].ver, fuel - 1)

C2_Safe ==
    (pc /= "idle" /\ StartsOlder /\ WellBehaved) =>
        /\ pc /= "raised"
        /\ riak_obj.data /= None
        /\ version_of(start) + nmig <= version_of(riak_obj.data)
        /\ version_of(riak_obj.data) <= VERSION
        /\ pc = "returned" =>
              /\ ret /= None
              /\ version_of(ret[1].riak_object.data) = VERSION
              /\ nmig = ChainLength(version_of(start), MaxVersion + 1)

\* C2: a load of an object stored at an older version, with migrators that each
\* strictly advance the version towards modelcls.VERSION, returns an object at
\* modelcls.VERSION after a number of migrator invocations that the stored
\* version and the migrator determine, at most the distance between the
\* versions; until then each invocation brings the version closer.
C2_MigrationTerminates ==
    /\ []C2_Safe
    /\ (pc = "loop" /\ StartsOlder) ~> (pc = "returned" \/ ~WellBehaved)

\* A load has returned after a chain of two well-behaved migrations.
C2_Witness ==
    /\ pc = "returned" /\ StartsOlder /\ WellBehaved
    /\ nmig = 2 /\ ret /= None

\* C3: a load whose reload leaves the data None returns None without raising
\* and without a migrator invocation; and when a migrator hands back data that
\* is None, the only step load has is to return None.
C3_AbsentLoadsNone ==
    /\ (pc \in {"loop", "returned", "raised"} /\ exc /= "transport" /\ start = None) =>
           /\ nmig = 0
           /\ pc /= "raised"
           /\ pc = "returned" => ret = None
    /\ (pc = "loop" /\ riak_obj.data = None) =>
           /\ ENABLED load_return_none
           /\ ~ENABLED load_return_obj
           /\ ~ENABLED load_migrate
    /\ (pc = "returned" /\ riak_obj.data = None) => ret = None

\* A migrator has handed back data that is None and load has returned None.
C3_Witness ==
    /\ pc = "returned" /\ ret = None
    /\ start /= None /\ nmig >= 1
    /\ riak_obj.data = None

\* C4: a load of a key that store wrote last returns an object at
\* modelcls.VERSION whose field data is the data that was stored.
C4_StoreLoadRoundTrip ==
    (pc = "returned" /\ stored[key] /= None) =>
        /\ ret /= None
        /\ ret[1].key = key
        /\ version_of(ret[1].riak_object.data) = VERSION
        /\ ret[1].riak_object.data[1].fields = stored[key][1]

\* A load has returned the object stored under a key that first held other data.
C4_Witness ==
    /\ pc = "returned" /\ ret /= None
    /\ stored[key] = Some("y")
    /\ \E k \in Keys : k /= key /\ stored[k] = Some("x")

\* The return values of the loads _load_multiple has called, in call order.
load_results == [i \in 1 .. Len(loaded) |-> loaded[i][2]]

\* C5: _load_multiple has called load once for each key consumed, in key order,
\* and its list is those loads' return values without the None ones, in the
\* same order; a key the store does not hold contributes nothing and a key
\* stored at modelcls.VERSION contributes its stored data; when it returns,
\* every key has been loaded.
C5_LoadMultipleFilters ==
    (bpc \in {"iter", "returned"}) =>
        /\ Len(loaded) = idx
        /\ \A i \in 1 .. idx : loaded[i][1] = keys[i]
        /\ objs = SelectSeq(load_results, is_object)
        /\ \A i \in 1 .. Len(objs) : objs[i] /= None
        /\ \A i \in 1 .. idx :
              /\ kv[keys[i]] = None => loaded[i][2] = None
              /\ (kv[keys[i]] /= None /\ json_loads(kv[keys[i]][1]).ver = VERSION) =>
                    loaded[i][2] = Some(modelcls(keys[i],
                        [bucket |-> bucket_for_modelcls, key |-> keys[i],
                         data |-> Some(json_loads(kv[keys[i]][1])),
                         content_type |-> "application/json",
                         indexes |-> NoIndexes]))
        /\ bpc = "returned" => idx = Len(keys)

\* _load_multiple has returned two objects for three keys, the second missing.
C5_Witness ==
    /\ bpc = "returned" /\ Len(keys) = 3
    /\ kv[keys[2]] = None
    /\ Len(objs) = 2

\* The phase and the data a well-formed chunk carries.
phase_of(text) == json_loads_chunk(text)[1].phase
data_of(text) == json_loads_chunk(text)[1].data
well_formed(parts) == \A i \in 1 .. Len(parts) : json_loads_chunk(parts[i]) /= None
phases_seen(parts, n) == {phase_of(parts[i]) : i \in 1 .. n}

\* The data of the chunks of phase p among the first n, in arrival order.
RECURSIVE arrivals(_, _, _)
arrivals(parts, p, n) ==
    IF n = 0 THEN <<>>
    ELSE arrivals(parts, p, n - 1)
         \o (IF phase_of(parts[n]) = p THEN data_of(parts[n]) ELSE <<>>)

C7_SamePhaseConcatenates ==
    chunks /= <<>> =>
        \A p \in Phases :
            IF p \in phases_seen(chunks, ci)
            THEN phase_results[p] = Some(arrivals(chunks, p, ci))
            ELSE phase_results[p] = None

\* Two chunks of one phase have been consumed with a chunk of another phase
\* between them.
C7_Witness ==
    /\ mpc = "chunks" /\ ci = 3
    /\ phase_of(chunks[1]) = phase_of(chunks[3])
    /\ phase_of(chunks[1]) /= phase_of(chunks[2])
    /\ data_of(chunks[1]) = <<"2", "3">>
    /\ data_of(chunks[3]) = <<"1">>
    /\ data_of(chunks[2]) /= <<>>

\* C8: decode_chunked_response of a message that is not multipart returns the
\* empty list for an empty or whitespace-only body, raises the map-reduce error
\* with the headers and the body for a JSON mapping with the key 'error', and
\* returns any other JSON document as decoded.
C8_NonMultipartDecoding ==
    (decoded /\ mpc \in {"returned", "raised"}) =>
        LET headers == response[1].headers
            body == response[1].body
            msg == message_from_string(headers.content_type, body)
            doc == json_loads_document(msg.payload)
        IN  ~msg.is_multipart =>
              /\ msg.payload \in {"", " \n"} =>
                    mpc = "returned" /\ mresult = Some(list_document(<<>>))
              /\ (msg.payload \notin {"", " \n"} /\ doc /= None) =>
                    IF doc[1].type = "dict" /\ "error" \in doc[1].keys
                    THEN /\ mpc = "raised"
                         /\ merror = [kind |-> "mapred", headers |-> headers, body |-> body]
                         /\ mresult = None
                    ELSE /\ mpc = "returned"
                         /\ mresult = doc

\* A JSON list that holds the string 'error' has been returned as it is.
C8_Witness ==
    /\ decoded /\ mpc = "returned"
    /\ response[1].body.text = "[\"error\"]"
    /\ mresult = Some(list_document(<<"error">>))

\* C9: with a response whose status is not 200, mapred raises the map-reduce
\* error that carries the response's headers (the status among them) and body;
\* decode_chunked_response and decode_chunks never run and nothing is returned.
C9_StatusErrorRaises ==
    (response /= None /\ response[1].headers.http_code /= 200) =>
        /\ mpc \in {"response", "raised"}
        /\ mpc = "response" =>
              ENABLED mapred_status_error /\ ~ENABLED decode_chunked_response
        /\ mpc = "raised" =>
              merror = [kind |-> "mapred", headers |-> response[1].headers,
                        body |-> response[1].body]
        /\ ~decoded
        /\ chunks = <<>> /\ ci = 0
        /\ mresult = None

\* mapred has raised for a 404 response whose body holds parts.
C9_Witness ==
    /\ mpc = "raised" /\ response /= None
    /\ response[1].headers.http_code = 404
    /\ response[1].headers.content_type = "multipart/mixed"
    /\ response[1].body.parts /= <<>>

\* C10: a mapred call with no query stages on a transport without phase-less
\* map-reduce raises with no HTTP request sent at any time of the call; every
\* other call sends the request.
C10_PhaselessFailsBeforeRequest ==
    mpc /= "idle" =>
        IF ~phaseless /\ (query = None \/ query = Some(<<>>))
        THEN /\ mpc = "raised"
             /\ merror = exception("phaseless")
             /\ ~sent
             /\ response = None
             /\ ~decoded
        ELSE sent

\* mapred has raised for an empty query without a request.
C10_Witness ==
    /\ mpc = "raised" /\ ~sent
    /\ query = Some(<<>>)

\* The bucket's name is the manager's prefix followed by anything.
in_namespace(b) ==
    /\ Len(b) >= Len(bucket_prefix)
    /\ SubSeq(b, 1, Len(bucket_prefix)) = bucket_prefix

\* C11: when purge_all has returned, every bucket under the manager's prefix
\* holds no key and every other bucket holds what it held when purge_all was
\* called; when it has raised instead, and at every point of the sweep, the
\* keys it has deleted are still absent, no other key of a bucket under the
\* prefix has changed, and the other buckets are as they were.
C11_PurgeClearsNamespaceOnly ==
    /\ spc = "returned" =>
         \A b \in BucketNames :
            IF in_namespace(b)
            THEN \A k \in Keys : buckets[b][k] = None
            ELSE buckets[b] = before[b]
    /\ spc /= "idle" =>
         /\ \A b \in BucketNames : ~in_namespace(b) => buckets[b] = before[b]
         /\ \A d \in deleted : buckets[d[1]][d[2]] = None
         /\ \A b \in BucketNames, k \in Keys :
               <<b, k>> \notin deleted => buckets[b][k] = before[b][k]

\* A sweep that failed after deleting some but not all keys of the
\* namespace, next to a bucket outside it that holds keys.
C11_Witness ==
    /\ spc = "raised"
    /\ deleted /= {}
    /\ \E b \in BucketNames, k \in Keys : in_namespace(b) /\ buckets[b][k] /= None
    /\ \E b \in BucketNames, k \in Keys : ~in_namespace(b) /\ buckets[b][k] /= None

\* The index entries of a riak object, as the store holds them: a set.
entries_of(o) == {o.indexes[i] : i \in 1 .. Len(o.indexes)}

\* C12: riak_object built from a result whose index is a dict and from a
\* result with the same content type and body whose index is the list of the
\* same (name, value) pairs yields two objects with the same bucket, key,
\* content type and data and the same index entries, as many in the one as in
\* the other; the entries are the pairs of the dict.
C12_IndexShapesAgree ==
    built /= None =>
        LET from_dict == built[1][1]
            from_list == built[1][2]
            d == fetched[1].metadata.index
        IN  /\ from_dict.bucket = from_list.bucket
            /\ from_dict.key = from_list.key
            /\ from_dict.content_type = from_list.content_type
            /\ from_dict.data = from_list.data
            /\ entries_of(from_dict) = entries_of(from_list)
            /\ Len(from_dict.indexes) = Len(from_list.indexes)
            /\ entries_of(from_dict) =
                  {<<d.names[i], d.values[d.names[i]]>> : i \in 1 .. Len(d.names)}
            /\ from_dict.content_type = fetched[1].metadata.content_type
            /\ from_dict.data = Some(json_loads(fetched[1].data))

\* Two objects built from a dict of two entries and from the list that has
\* them in the other order.
C12_Witness ==
    /\ built /= None
    /\ Len(built[1][1].indexes) = 2
    /\ built[1][1].indexes /= built[1][2].indexes
    /\ built[1][1].content_type = "text/json"

\* The rows as the mapper, when there is one, turns them, in row order.
through_mapper == 
    IF mapper_func = None THEN rows
    ELSE [i \in 1 .. Len(rows) |-> <<mapper_func[1]>> \o rows[i]]

\* C13: run_map_reduce returns the rows as mapreduce.run() gave them when
\* there is neither function, each row put through mapper_func, in row
\* order, when there is a mapper, and what reducer_func makes of that list
\* when there is a reducer; the mapper is called once for each row, in row
\* order and before the reducer, and the reducer is called exactly once, with
\* the whole list.
C13_MapThenReduce ==
    rpc = "returned" =>
        /\ rret = [reduced_by |-> IF reducer_func = None THEN "" ELSE reducer_func[1],
                   rows |-> through_mapper]
        /\ LET nmap == IF mapper_func = None THEN 0 ELSE Len(rows)
               nred == IF reducer_func = None THEN 0 ELSE 1
           IN  /\ Len(calls) = nmap + nred
               /\ \A i \in 1 .. nmap :
                     calls[i] = [fn |-> mapper_func[1], args |-> <<rows[i]>>]
               /\ nred = 1 =>
                     calls[nmap + 1] = [fn |-> reducer_func[1], args |-> through_mapper]

\* A job of three rows, not all the same, has been mapped and reduced.
C13_Witness ==
    /\ rpc = "returned"
    /\ mapper_func /= None /\ reducer_func /= None
    /\ Len(rows) = 3 /\ rows[1] /= rows[3]
    /\ rret.reduced_by = reducer_func[1]

\* From version v the migrators, as far as they are known, hand back data at
\* a version other than modelcls.VERSION for the next fuel invocations.
RECURSIVE Trapped(_, _)
Trapped(v, fuel) ==
    IF fuel = 0 THEN TRUE
    ELSE /\ v /= VERSION
         /\ MIGRATOR[v].kind = "obj"
         /\ Trapped(MIGRATOR[v].ver, fuel - 1)

\* load is in its loop with data whose version the migrators never bring to
\* modelcls.VERSION: the versions reachable from it are all known, none is
\* modelcls.VERSION and none is left with data that is None or an exception.
NeverCurrent ==
    /\ pc = "loop"
    /\ riak_obj.data /= None
    /\ Trapped(version_of(riak_obj.data), MaxVersion + 1)

\* C14: once load is in its loop with data that the migrators never bring to
\* modelcls.VERSION (they hand back the same version, or versions that go
\* round, never data that is None), it stays there at every later step: it
\* has no return and no exception to take, its one step is the next migrator
\* invocation, and it goes on taking it for as long as the count is kept.
C14_LoopsForever ==
    /\ [][NeverCurrent => NeverCurrent']_vars
    /\ [](NeverCurrent =>
            /\ ENABLED load_migrate_det
            /\ ~ENABLED load_return_none
            /\ ~ENABLED load_return_obj
            /\ ret = None /\ exc = "")
    /\ NeverCurrent ~> (NeverCurrent /\ nmig = MaxMigrations)

\* load has invoked the migrators as often as is counted, between two
\* versions that hand over to each other.
C14_Witness ==
    /\ NeverCurrent
    /\ nmig = MaxMigrations
    /\ MIGRATOR[version_of(riak_obj.data)].ver /= version_of(riak_obj.data)
    /\ start /= None /\ version_of(start) /= VERSION

\* The response that is being decoded has no content: its body is empty or
\* blank, or it is a multipart message that closes without a part.
no_content ==
    LET headers == response[1].headers
        body == response[1].body
    IN  /\ body.parts = <<>>
        /\ \/ body.text \in {"", " \n"}
           \/ headers.content_type = "multipart/mixed" /\ body.text = ClosingBoundary

\* The response that is being decoded is a multipart message of one part,
\* which carries a phase and its data.
single_part ==
    /\ response[1].headers.content_type = "multipart/mixed"
    /\ Len(response[1].body.parts) = 1
    /\ well_formed(response[1].body.parts)

\* C15: decoding a response with no content (an empty or blank body, or a
\* multipart message without a part) returns the empty list, and decoding a
\* multipart response of one part returns the data of that part; neither
\* raises at any point.
C15_EmptyAndSinglePartDecode ==
    (decoded /\ response /= None) =>
        /\ no_content =>
              /\ mpc = "returned"
              /\ mresult = Some(list_document(<<>>))
              /\ merror = NoError
        /\ single_part =>
              /\ mpc \in {"chunks", "returned"}
              /\ merror = NoError
              /\ mpc = "returned" =>
                    mresult = Some(list_document(data_of(response[1].body.parts[1])))
              /\ mpc = "chunks" =>
                    \/ ENABLED decode_chunks_step
                    \/ ENABLED decode_chunks_return

\* A multipart response that is its closing delimiter alone has been decoded.
C15_Witness ==
    /\ decoded /\ mpc = "returned"
    /\ response[1].headers.content_type = "multipart/mixed"
    /\ response[1].body.text = ClosingBoundary
    /\ mresult = Some(list_document(<<>>))

\* What a load that runs alone does with the data it starts from, read off
\* the migrators as far as they are known: where it ends, with what data,
\* after how many migrator invocations.
RECURSIVE Alone(_, _, _)
Alone(data, n, fuel) ==
    IF data = None \/ fuel = 0
    THEN [pc |-> "returned", data |-> None, n |-> n, exc |-> ""]
    ELSE IF data[1].ver = VERSION
    THEN [pc |-> "returned", data |-> data, n |-> n, exc |-> ""]
    ELSE LET o == MIGRATOR[data[1].ver]
         IN  CASE o.kind = "raise" ->
                    [pc |-> "raised", data |-> data, n |-> n + 1, exc |-> "migrator"]
               [] o.kind = "none" -> Alone(None, n + 1, fuel - 1)
               [] OTHER ->
                    Alone(Some([ver |-> o.ver, fields |-> o.fields]), n + 1, fuel - 1)

stored_data(k) == IF kv[k] = None THEN None ELSE Some(json_loads(kv[k][1]))

\* C16: whenever one of two loads that run at once has returned or has
\* raised what a migrator raised, it has done what a load of its key does
\* alone: the same number of migrator invocations, the same exception, and
\* the same return value, which is None or an object of its key at
\* modelcls.VERSION; so two such loads of one key end alike, whatever the
\* order of their steps.
C16_LoadsDoNotInterfere ==
    /\ \A c \in Callers :
          (cpc[c] \in {"returned", "raised"} /\ cexc[c] /= "transport") =>
              LET alone == Alone(stored_data(ckey[c]), 0, MaxVersion + 2)
              IN  /\ cpc[c] = alone.pc
                  /\ cexc[c] = alone.exc
                  /\ cnmig[c] = alone.n
                  /\ cret[c] = IF alone.pc = "raised" \/ alone.data = None THEN None
                               ELSE Some([key |-> ckey[c],
                                          riak_object |->
                                              [bucket |-> bucket_for_modelcls,
                                               key |-> ckey[c],
                                               data |-> alone.data,
                                               content_type |-> "application/json",
                                               indexes |-> NoIndexes]])
                  /\ cret[c] /= None =>
                        version_of(cret[c][1].riak_object.data) = VERSION
    /\ \A c, d \in Callers :
          (/\ cpc[c] \in {"returned", "raised"} /\ cexc[c] /= "transport"
           /\ cpc[d] \in {"returned", "raised"} /\ cexc[d] /= "transport"
           /\ ckey[c] = ckey[d]) =>
              /\ cpc[c] = cpc[d] /\ cret[c] = cret[d]
              /\ cexc[c] = cexc[d] /\ cnmig[c] = cnmig[d]

\* Two loads of one stale key have both returned an object after two
\* migrations each, their migrator invocations interleaved.
C16_Witness ==
    /\ overlapped
    /\ \A c \in Callers : cpc[c] = "returned" /\ cret[c] /= None /\ cnmig[c] = 2
    /\ ckey["c1"] = ckey["c2"]

\* The riak object is the one of key k in the bucket of modelcls.
identified_by(o, k) ==
    /\ o.key = k
    /\ o.bucket = bucket_prefix \o modelcls_bucket

====
